---------------------------- MODULE Spec2Model ----------------------------
(***************************************************************************)
(* A model of the BioOS kernel (src/BioOS_kernel.cpp): the resource pool   *)
(* BiologicalMemory, the ProcessScheduler, the EventManager and the BioOS  *)
(* tick loop.                                                              *)
(*                                                                         *)
(* Conventions.  Sizes, timestamps, the clock, energy and age are floating  *)
(* point numbers in the source and integers here.  Energy, age and the     *)
(* time step are counted in units of 2^-19 (Unit is the value 1.0), and    *)
(* the float operations of BioProcess::update round to the 24 significant  *)
(* bits of a float (fl); the doubles (sizes, timestamps, the clock) are    *)
(* exact in the ranges of the model.  Time steps are even, so that         *)
(* delta_time * 0.5f is an integer.  A shared_ptr<BioProcess> is the pid   *)
(* of the entity it points to (the process table never erases an entry);   *)
(* nullptr is NoPid.                                                       *)
(***************************************************************************)
EXTENDS Integers, Sequences, FiniteSets, TLC

VARIABLES
    \* BiologicalMemory
    total_capacity,   \* total_capacity
    free_space,       \* free_space
    allocated,        \* allocated   (entity id -> size)
    \* ProcessScheduler
    processes,        \* processes   (pid -> BioProcess)
    ready_queue,      \* ready_queue (sequence of pids)
    pid_counter,      \* pid_counter
    scheduler_lock,   \* scheduler_lock: the thread that holds it, or NoThread
    \* threads that call into the scheduler concurrently
    t_pc,             \* thread -> the line of the call the thread is at
    t_pid,            \* thread -> the local/argument pid of its call
    t_call,           \* thread -> the position of its create_process call in cp_ids
    cp_ids,           \* the ids returned by the create_process calls, in the
                      \* order in which the calls acquired scheduler_lock
                      \* (NoPid while a call has not returned)
    \* EventManager
    event_queue,      \* event_queue: the heap array of std::priority_queue
    handlers,         \* handlers    (event type -> sequence of handlers)
    event_lock,       \* event_lock is held
    pe_pc,            \* where process_events is
    pe_time,          \* process_events: current_time
    pe_event,         \* process_events: event
    pe_h,             \* process_events: position in handlers[event.event_type]
    emitted,          \* number of events emitted
    delivered,        \* the handler invocations of the running process_events call, in order
    \* BioOS
    time_step,        \* time_step
    current_time,     \* current_time
    running,          \* running
    k_pc,             \* where run_tick is
    k_processes,      \* run_tick: processes (the result of get_all_processes)
    k_i,              \* run_tick: position of the range-for in k_processes
    k_updated,        \* run_tick: the entities update was invoked on, in order
    s_pc,             \* where simulate is
    s_duration,       \* simulate: duration
    s_ticks,          \* simulate: ticks
    s_i,              \* simulate: i
    report,           \* what the latest shutdown printed (at most one element)
    \* observation
    last_call         \* the call that returned last: its name, arguments and result

memvars == <<total_capacity, free_space, allocated>>
schedvars == <<processes, ready_queue, pid_counter>>
thvars == <<scheduler_lock, t_pc, t_pid, t_call, cp_ids>>
evvars == <<event_queue, handlers, event_lock, pe_pc, pe_time, pe_event, pe_h,
            emitted, delivered>>
simvars == <<s_pc, s_duration, s_ticks, s_i>>
kvars == <<time_step, current_time, running, k_pc, k_processes, k_i, k_updated,
           simvars, report>>
vars == <<memvars, schedvars, thvars, evvars, kvars, last_call>>

----------------------------------------------------------------------------
(* Bounds of the model *)

MaxCapacity == 3      \* capacities a BiologicalMemory is constructed with: 1..MaxCapacity
MaxSize == 2          \* sizes passed to allocate: 0..MaxSize
MaxId == 1            \* entity ids passed to allocate/deallocate: 0..MaxId
MaxProcs == 3         \* create_process is called at most MaxProcs times
PrioritySpread == 1   \* priorities a caller assigns: DefaultPriority - PrioritySpread .. DefaultPriority

NumThreads == 2       \* threads that call into the scheduler concurrently
MaxEvents == 3        \* emit is called at most MaxEvents times
MaxHandlers == 2      \* subscribe is called at most MaxHandlers times
MaxTime == 2          \* timestamps and process_events times: 1..MaxTime
MaxTicks == 3         \* run_tick is called at most MaxTicks times
MaxDuration == 4      \* durations passed to simulate: 1..MaxDuration half time steps

NoPid == -1           \* nullptr / "no entity"
NoThread == 0         \* scheduler_lock is free
Threads == 1..NumThreads
KernelCapacity == 10000   \* the capacity BioOS constructs its memory with
NoEvent == [timestamp |-> 0, event_type |-> "none", source_pid |-> NoPid, n |-> 0, during |-> 0]

Ids == 0..MaxId
Sizes == 0..MaxSize

NoCall == [op |-> "none", id |-> NoPid, size |-> 0, ok |-> FALSE, pid |-> NoPid]
Call(op, id, size, ok, pid) == [op |-> op, id |-> id, size |-> size, ok |-> ok, pid |-> pid]

----------------------------------------------------------------------------
(* BiologicalMemory *)

\* std::map::operator[] assignment and std::map::erase
MapPut(m, k, v) == [x \in (DOMAIN m) \cup {k} |-> IF x = k THEN v ELSE m[x]]
MapErase(m, k) == [x \in (DOMAIN m) \ {k} |-> m[x]]
EmptyMap == [x \in {} |-> 0]

RECURSIVE SumOver(_, _)
SumOver(m, S) ==
    IF S = {} THEN 0
    ELSE LET k == CHOOSE x \in S : TRUE IN m[k] + SumOver(m, S \ {k})

\* the sum of all recorded active allocations
SumAllocated == SumOver(allocated, DOMAIN allocated)

\* allocate that does not compare size with free_space
allocate_nocheck(free, alloc, entity_id, size) ==
    [ret |-> TRUE, free_space |-> free - size, allocated |-> MapPut(alloc, entity_id, size)]

\* BiologicalMemory::allocate
allocate(free, alloc, entity_id, size) ==
    IF free >= size
    THEN [ret |-> TRUE, free_space |-> free - size, allocated |-> MapPut(alloc, entity_id, size)]
    ELSE [ret |-> FALSE, free_space |-> free, allocated |-> alloc]

\* deallocate that forgets to erase the record
deallocate_noerase(free, alloc, entity_id) ==
    IF entity_id \in DOMAIN alloc
    THEN [ret |-> TRUE, free_space |-> free + alloc[entity_id], allocated |-> alloc]
    ELSE [ret |-> FALSE, free_space |-> free, allocated |-> alloc]

\* BiologicalMemory::deallocate
deallocate(free, alloc, entity_id) ==
    IF entity_id \in DOMAIN alloc
    THEN [ret |-> TRUE, free_space |-> free + alloc[entity_id],
          allocated |-> MapErase(alloc, entity_id)]
    ELSE [ret |-> FALSE, free_space |-> free, allocated |-> alloc]

\* a caller's memory.allocate(entity_id, size)
Allocate(entity_id, size) ==
    LET r == allocate(free_space, allocated, entity_id, size) IN
    /\ free_space' = r.free_space
    /\ allocated' = r.allocated
    /\ last_call' = Call("allocate", entity_id, size, r.ret, NoPid)
    /\ UNCHANGED <<total_capacity, schedvars, thvars, evvars, kvars>>

\* a caller's memory.deallocate(entity_id)
Deallocate(entity_id) ==
    LET r == deallocate(free_space, allocated, entity_id) IN
    /\ free_space' = r.free_space
    /\ allocated' = r.allocated
    /\ last_call' = Call("deallocate", entity_id, free_space' - free_space, r.ret, NoPid)
    /\ UNCHANGED <<total_capacity, schedvars, thvars, evvars, kvars>>

\* BiologicalMemory(capacity)
MemoryInit(capacity) ==
    /\ total_capacity = capacity
    /\ free_space = capacity
    /\ allocated = EmptyMap

\* a default-constructed ProcessScheduler
SchedulerInit ==
    /\ processes = EmptyMap
    /\ ready_queue = << >>
    /\ pid_counter = 0

\* no thread is inside the scheduler
ThreadsInit ==
    /\ scheduler_lock = NoThread
    /\ t_pc = [t \in Threads |-> "idle"]
    /\ t_pid = [t \in Threads |-> NoPid]
    /\ t_call = [t \in Threads |-> 0]
    /\ cp_ids = << >>

\* a default-constructed EventManager, process_events not running
EventManagerInit ==
    /\ event_queue = << >>
    /\ handlers = EmptyMap
    /\ event_lock = FALSE
    /\ pe_pc = "idle"
    /\ pe_time = 0
    /\ pe_event = NoEvent
    /\ pe_h = 0
    /\ emitted = 0
    /\ delivered = << >>

\* BioOS(ts), run_tick not running
KernelInit(ts) ==
    /\ time_step = ts
    /\ current_time = 0
    /\ running = FALSE
    /\ k_pc = "idle"
    /\ k_processes = << >>
    /\ k_i = 0
    /\ k_updated = << >>
    /\ s_pc = "idle"
    /\ s_duration = 0
    /\ s_ticks = 0
    /\ s_i = 0
    /\ report = << >>

\* a BiologicalMemory of any capacity, used on its own
MemInit ==
    /\ \E capacity \in 1..MaxCapacity : MemoryInit(capacity)
    /\ SchedulerInit
    /\ ThreadsInit
    /\ EventManagerInit
    /\ KernelInit(0)
    /\ last_call = NoCall

MemNext ==
    \/ \E id \in Ids, size \in Sizes : Allocate(id, size)
    \/ \E id \in Ids : Deallocate(id)

MemSpec == MemInit /\ [][MemNext]_vars

----------------------------------------------------------------------------
(* BioProcess and ProcessScheduler *)

\* the value 1.0 of the source's floats, in the units of the model
Unit == 2^19

\* float: the distance between the floats around x >= 0 (24 significant bits)
RECURSIVE Ulp(_)
Ulp(x) == IF x < 2^24 THEN 1 ELSE 2 * Ulp(x \div 2)

\* float: the exact result x of an operation rounded to the nearest float,
\* ties to the even significand
fl(x) ==
    LET a == IF x < 0 THEN -x ELSE x
        u == Ulp(a)
        q == a \div u
        r == a % u
        n == IF 2 * r > u \/ (2 * r = u /\ q % 2 = 1) THEN (q + 1) * u ELSE q * u
    IN  IF x < 0 THEN -n ELSE n

DefaultPriority == 5      \* BioProcess::priority
InitEnergy == 100 * Unit  \* BioProcess::energy = 100.0f
Priorities == (DefaultPriority - PrioritySpread)..DefaultPriority
Pids == 0..(MaxProcs - 1)

\* BioProcess(id, name): the fields the kernel reads and writes
NewProcess == [state |-> "READY", priority |-> DefaultPriority,
               energy |-> InitEnergy, age |-> 0]

Range(q) == {q[i] : i \in 1..Len(q)}

\* the rearrangements of a sequence
PermutationsOf(q) ==
    LET n == Len(q)
        Bij == {f \in [1..n -> 1..n] : \A i, j \in 1..n : f[i] = f[j] => i = j}
    IN  {[i \in 1..n |-> q[f[i]]] : f \in Bij}

\* std::sort(ready_queue.begin(), ready_queue.end(), a->priority < b->priority):
\* some rearrangement in which no element has a smaller priority than one
\* before it.  std::sort does not keep the order of equivalent elements, so
\* every such rearrangement is a possible result.
sort(q, procs) ==
    {s \in PermutationsOf(q) :
        \A i \in 1..(Len(s) - 1) : ~(procs[s[i + 1]].priority < procs[s[i]].priority)}

\* ProcessScheduler::create_process
create_process(procs, queue, counter) ==
    [pid |-> counter,
     processes |-> MapPut(procs, counter, NewProcess),
     ready_queue |-> Append(queue, counter),
     pid_counter |-> counter + 1]

\* terminate_process that marks the entity but leaves it in the ready-queue
terminate_process_noremove(procs, queue, pid) ==
    IF pid \in DOMAIN procs
    THEN [ret |-> TRUE,
          processes |-> [procs EXCEPT ![pid].state = "TERMINATED"],
          ready_queue |-> queue]
    ELSE [ret |-> FALSE, processes |-> procs, ready_queue |-> queue]

\* ProcessScheduler::terminate_process
terminate_process(procs, queue, pid) ==
    IF pid \in DOMAIN procs
    THEN [ret |-> TRUE,
          processes |-> [procs EXCEPT ![pid].state = "TERMINATED"],
          ready_queue |-> SelectSeq(queue, LAMBDA p : p # pid)]
    ELSE [ret |-> FALSE, processes |-> procs, ready_queue |-> queue]

\* the elements of a finite set of integers in ascending order
AscendingSeq(S) ==
    IF S = {} THEN << >>
    ELSE LET mn == CHOOSE x \in S : \A y \in S : x <= y
             mx == CHOOSE x \in S : \A y \in S : y <= x
         IN  SelectSeq([i \in 1..(mx - mn + 1) |-> mn + i - 1], LAMBDA p : p \in S)

\* get_all_processes that also returns the TERMINATED entities
get_all_processes_unfiltered(procs) == AscendingSeq(DOMAIN procs)

\* ProcessScheduler::get_all_processes: the live entities in table (pid) order
get_all_processes(procs) ==
    AscendingSeq({pid \in DOMAIN procs : procs[pid].state # "TERMINATED"})

\* a caller's scheduler.create_process(name)
CreateProcess ==
    /\ pid_counter < MaxProcs
    /\ LET r == create_process(processes, ready_queue, pid_counter) IN
        /\ processes' = r.processes
        /\ ready_queue' = r.ready_queue
        /\ pid_counter' = r.pid_counter
        /\ last_call' = Call("create_process", NoPid, 0, TRUE, r.pid)
    /\ UNCHANGED <<memvars, thvars, evvars, kvars>>

\* a caller's scheduler.schedule()
Schedule ==
    /\ IF ready_queue = << >>
       THEN /\ last_call' = Call("schedule", NoPid, 0, FALSE, NoPid)
            /\ UNCHANGED ready_queue
       ELSE \E s \in sort(ready_queue, processes) :
            /\ ready_queue' = Tail(s)
            /\ last_call' = Call("schedule", NoPid, 0, TRUE, Head(s))
    /\ UNCHANGED <<processes, pid_counter, memvars, thvars, evvars, kvars>>

\* a caller's scheduler.terminate_process(pid)
TerminateProcess(pid) ==
    /\ LET r == terminate_process(processes, ready_queue, pid) IN
        /\ processes' = r.processes
        /\ ready_queue' = r.ready_queue
        /\ last_call' = Call("terminate_process", pid, Len(ready_queue) - Len(r.ready_queue),
                              r.ret, NoPid)
    /\ UNCHANGED <<pid_counter, memvars, thvars, evvars, kvars>>

\* a caller's scheduler.get_process(pid)->priority = prio
SetPriority(pid, prio) ==
    /\ pid \in DOMAIN processes
    /\ processes' = [processes EXCEPT ![pid].priority = prio]
    /\ last_call' = Call("set_priority", pid, prio, TRUE, NoPid)
    /\ UNCHANGED <<ready_queue, pid_counter, memvars, thvars, evvars, kvars>>

\* a ProcessScheduler used on its own by one caller
SchedInit ==
    /\ MemoryInit(KernelCapacity)
    /\ SchedulerInit
    /\ ThreadsInit
    /\ EventManagerInit
    /\ KernelInit(0)
    /\ last_call = NoCall

SchedNext ==
    \/ CreateProcess
    \/ Schedule
    \/ \E pid \in Pids : TerminateProcess(pid)
    \/ \E pid \in Pids, prio \in Priorities : SetPriority(pid, prio)

SchedSpec == SchedInit /\ [][SchedNext]_vars

----------------------------------------------------------------------------
(* Threads calling create_process and terminate_process concurrently.  Each *)
(* line of a call is a step of its own, so that the interleavings that      *)
(* scheduler_lock rules out are ruled out by the lock alone.                *)

\* a mutex that lets a second thread in
lock_broken(holder) == TRUE

\* std::lock_guard<std::mutex> lock(scheduler_lock): the thread goes on once
\* no thread holds the mutex
lock_free(holder) == holder = NoThread

Goto(t, label) == t_pc' = [t_pc EXCEPT ![t] = label]

\* create_process: std::lock_guard<std::mutex> lock(scheduler_lock)
CP_Lock(t) ==
    /\ t_pc[t] = "idle"
    /\ Len(cp_ids) < MaxProcs
    /\ lock_free(scheduler_lock)
    /\ scheduler_lock' = t
    /\ cp_ids' = Append(cp_ids, NoPid)
    /\ t_call' = [t_call EXCEPT ![t] = Len(cp_ids) + 1]
    /\ Goto(t, "cp_read")
    /\ UNCHANGED <<t_pid, memvars, schedvars, evvars, kvars, last_call>>

\* create_process: int pid = pid_counter++   (the read of pid_counter)
CP_Read(t) ==
    /\ t_pc[t] = "cp_read"
    /\ t_pid' = [t_pid EXCEPT ![t] = pid_counter]
    /\ Goto(t, "cp_incr")
    /\ UNCHANGED <<scheduler_lock, t_call, cp_ids, memvars, schedvars, evvars, kvars,
                   last_call>>

\* create_process: int pid = pid_counter++   (the write of pid_counter)
CP_Incr(t) ==
    /\ t_pc[t] = "cp_incr"
    /\ pid_counter' = create_process(processes, ready_queue, t_pid[t]).pid_counter
    /\ Goto(t, "cp_insert")
    /\ UNCHANGED <<processes, ready_queue, scheduler_lock, t_pid, t_call, cp_ids,
                   memvars, evvars, kvars, last_call>>

\* create_process: processes[pid] = process
CP_Insert(t) ==
    /\ t_pc[t] = "cp_insert"
    /\ processes' = create_process(processes, ready_queue, t_pid[t]).processes
    /\ Goto(t, "cp_push")
    /\ UNCHANGED <<ready_queue, pid_counter, scheduler_lock, t_pid, t_call, cp_ids,
                   memvars, evvars, kvars, last_call>>

\* create_process: ready_queue.push_back(process)
CP_Push(t) ==
    /\ t_pc[t] = "cp_push"
    /\ ready_queue' = create_process(processes, ready_queue, t_pid[t]).ready_queue
    /\ Goto(t, "cp_return")
    /\ UNCHANGED <<processes, pid_counter, scheduler_lock, t_pid, t_call, cp_ids,
                   memvars, evvars, kvars, last_call>>

\* create_process: return pid   (the lock_guard releases scheduler_lock)
CP_Return(t) ==
    /\ t_pc[t] = "cp_return"
    /\ cp_ids' = [cp_ids EXCEPT ![t_call[t]] = t_pid[t]]
    /\ scheduler_lock' = NoThread
    /\ last_call' = Call("create_process", NoPid, 0, TRUE, t_pid[t])
    /\ Goto(t, "idle")
    /\ UNCHANGED <<t_pid, t_call, memvars, schedvars, evvars, kvars>>

\* terminate_process(pid): std::lock_guard<std::mutex> lock(scheduler_lock)
TP_Lock(t, pid) ==
    /\ t_pc[t] = "idle"
    /\ lock_free(scheduler_lock)
    /\ scheduler_lock' = t
    /\ t_pid' = [t_pid EXCEPT ![t] = pid]
    /\ Goto(t, "tp_find")
    /\ UNCHANGED <<t_call, cp_ids, memvars, schedvars, evvars, kvars, last_call>>

\* terminate_process: if (processes.find(pid) != processes.end())
TP_Find(t) ==
    /\ t_pc[t] = "tp_find"
    /\ IF terminate_process(processes, ready_queue, t_pid[t]).ret
       THEN Goto(t, "tp_state")
       ELSE Goto(t, "tp_false")
    /\ UNCHANGED <<scheduler_lock, t_pid, t_call, cp_ids, memvars, schedvars, evvars, kvars,
                   last_call>>

\* terminate_process: processes[pid]->state = ProcessState::TERMINATED
TP_State(t) ==
    /\ t_pc[t] = "tp_state"
    /\ processes' = terminate_process(processes, ready_queue, t_pid[t]).processes
    /\ Goto(t, "tp_remove")
    /\ UNCHANGED <<ready_queue, pid_counter, scheduler_lock, t_pid, t_call, cp_ids,
                   memvars, evvars, kvars, last_call>>

\* terminate_process: ready_queue.erase(std::remove_if(...), ready_queue.end())
TP_Remove(t) ==
    /\ t_pc[t] = "tp_remove"
    /\ ready_queue' = terminate_process(processes, ready_queue, t_pid[t]).ready_queue
    /\ Goto(t, "tp_true")
    /\ UNCHANGED <<processes, pid_counter, scheduler_lock, t_pid, t_call, cp_ids,
                   memvars, evvars, kvars, last_call>>

\* terminate_process: return true / return false   (the lock is released)
TP_Return(t) ==
    /\ t_pc[t] \in {"tp_true", "tp_false"}
    /\ scheduler_lock' = NoThread
    /\ last_call' = Call("terminate_process", t_pid[t], 0, t_pc[t] = "tp_true", NoPid)
    /\ Goto(t, "idle")
    /\ UNCHANGED <<t_pid, t_call, cp_ids, memvars, schedvars, evvars, kvars>>

ConcInit == SchedInit

ConcNext ==
    \E t \in Threads :
        \/ CP_Lock(t)
        \/ CP_Read(t)
        \/ CP_Incr(t)
        \/ CP_Insert(t)
        \/ CP_Push(t)
        \/ CP_Return(t)
        \/ \E pid \in Pids : TP_Lock(t, pid)
        \/ TP_Find(t)
        \/ TP_State(t)
        \/ TP_Remove(t)
        \/ TP_Return(t)

ConcSpec == ConcInit /\ [][ConcNext]_vars

----------------------------------------------------------------------------
(* BiologicalEvent and EventManager *)

\* two of the six EventType values
EventTypes == {"CELL_DIVISION", "APOPTOSIS"}
OtherType(ty) == IF ty = "CELL_DIVISION" THEN "APOPTOSIS" ELSE "CELL_DIVISION"
Times == 1..MaxTime

\* The handlers a caller subscribes: "note" only looks at the event; "emit"
\* calls emit() with an event of the other type and the same timestamp.
HandlerKinds == {"note", "emit"}

\* BiologicalEvent(t, et, pid); n and during do not exist in the source: n
\* numbers the events in emission order; during is 0 for an event that a
\* caller emitted, 1 for an event that a handler emitted inside the
\* process_events call that is running, 2 for an event that a handler
\* emitted inside a process_events call that is over
BiologicalEvent(t, et, pid, num, call) ==
    [timestamp |-> t, event_type |-> et, source_pid |-> pid, n |-> num, during |-> call]

\* BiologicalEvent::operator<
Less(a, b) == a.timestamp > b.timestamp

\* std::__push_heap(first, holeIndex, topIndex, value) on the heap array a
\* (positions are counted from 0 as in the source, a is indexed from 1)
RECURSIVE push_heap(_, _, _, _)
push_heap(a, holeIndex, topIndex, value) ==
    LET parent == (holeIndex - 1) \div 2 IN
    IF holeIndex > topIndex /\ Less(a[parent + 1], value)
    THEN push_heap([a EXCEPT ![holeIndex + 1] = a[parent + 1]], parent, topIndex, value)
    ELSE [a EXCEPT ![holeIndex + 1] = value]

\* the while loop of std::__adjust_heap: the hole moves down to a leaf, the
\* larger child moving up each time
RECURSIVE sift_down(_, _, _, _)
sift_down(a, holeIndex, secondChild, len) ==
    IF secondChild < (len - 1) \div 2
    THEN LET right == 2 * (secondChild + 1)
             child == IF Less(a[right + 1], a[right]) THEN right - 1 ELSE right
         IN  sift_down([a EXCEPT ![holeIndex + 1] = a[child + 1]], child, child, len)
    ELSE [a |-> a, holeIndex |-> holeIndex, secondChild |-> secondChild]

\* std::__adjust_heap(first, holeIndex, len, value)
adjust_heap(a, holeIndex, len, value) ==
    LET d == sift_down(a, holeIndex, holeIndex, len)
        last_left == len % 2 = 0 /\ d.secondChild = (len - 2) \div 2
        a2 == IF last_left
              THEN [d.a EXCEPT ![d.holeIndex + 1] = d.a[2 * (d.secondChild + 1)]]
              ELSE d.a
        hole2 == IF last_left THEN 2 * (d.secondChild + 1) - 1 ELSE d.holeIndex
    IN  push_heap(a2, hole2, holeIndex, value)

\* std::priority_queue::push: c.push_back(x); std::push_heap(c.begin(), c.end())
queue_push(q, x) == push_heap(Append(q, x), Len(q), 0, x)

\* std::priority_queue::pop: std::pop_heap(c.begin(), c.end()); c.pop_back()
queue_pop(q) ==
    IF Len(q) <= 1 THEN << >>
    ELSE adjust_heap(SubSeq(q, 1, Len(q) - 1), 0, Len(q) - 1, q[Len(q)])

\* std::priority_queue::top
queue_top(q) == q[1]

\* handlers[event_type].push_back(handler)
subscribe(h, event_type, handler) ==
    MapPut(h, event_type,
           IF event_type \in DOMAIN h THEN Append(h[event_type], handler) ELSE <<handler>>)

RECURSIVE CountHandlers(_, _)
CountHandlers(h, S) ==
    IF S = {} THEN 0
    ELSE LET k == CHOOSE x \in S : TRUE IN Len(h[k]) + CountHandlers(h, S \ {k})

\* a caller's event_manager.subscribe(event_type, handler)
Subscribe(event_type, handler) ==
    /\ pe_pc = "idle"
    /\ CountHandlers(handlers, DOMAIN handlers) < MaxHandlers
    /\ handlers' = subscribe(handlers, event_type, handler)
    /\ UNCHANGED <<last_call, event_queue, event_lock, pe_pc, pe_time, pe_event, pe_h,
                   emitted, delivered, memvars, schedvars, thvars, kvars>>

\* a caller's event_manager.emit(BiologicalEvent(t, et, 0))
Emit(t, et) ==
    /\ pe_pc = "idle"
    /\ emitted < MaxEvents
    /\ ~event_lock
    /\ event_queue' = queue_push(event_queue, BiologicalEvent(t, et, 0, emitted + 1, 0))
    /\ emitted' = emitted + 1
    /\ UNCHANGED <<last_call, handlers, event_lock, pe_pc, pe_time, pe_event, pe_h,
                   delivered, memvars, schedvars, thvars, kvars>>

\* process_events(t): std::lock_guard<std::mutex> lock(event_lock)
PE_Lock(t) ==
    /\ pe_pc = "idle"
    /\ ~event_lock
    /\ event_lock' = TRUE
    /\ pe_time' = t
    /\ pe_pc' = "while"
    /\ UNCHANGED <<event_queue, handlers, pe_event, pe_h, emitted, delivered,
                   memvars, schedvars, thvars, kvars, last_call>>

\* the end of a process_events call, for the events that its handlers emitted
CallOver(q) == [i \in 1..Len(q) |-> [q[i] EXCEPT !.during = IF @ = 1 THEN 2 ELSE @]]

\* the event at the top of the queue is strictly before t
Due_early(q, t) == q # << >> /\ queue_top(q).timestamp < t

\* the event at the top of the queue is due
Due(q, t) == q # << >> /\ queue_top(q).timestamp <= t

\* process_events: the while test holds; event = top(); pop(); handlers.find(...)
PE_Pop ==
    /\ pe_pc = "while"
    /\ Due(event_queue, pe_time)
    /\ pe_event' = queue_top(event_queue)
    /\ event_queue' = queue_pop(event_queue)
    /\ pe_h' = 1
    /\ pe_pc' = IF queue_top(event_queue).event_type \in DOMAIN handlers
                THEN "for" ELSE "while"
    /\ UNCHANGED <<handlers, event_lock, pe_time, emitted, delivered,
                   memvars, schedvars, thvars, kvars, last_call>>

\* process_events: the while test fails; the lock_guard releases event_lock
PE_Return ==
    /\ pe_pc = "while"
    /\ ~Due(event_queue, pe_time)
    /\ event_lock' = FALSE
    /\ pe_pc' = "idle"
    /\ pe_event' = NoEvent
    /\ pe_h' = 0
    /\ event_queue' = CallOver(event_queue)
    /\ delivered' = << >>
    /\ pe_time' = 0
    /\ last_call' = Call("process_events", NoPid, 0, TRUE, NoPid)
    /\ UNCHANGED <<handlers, emitted, memvars, schedvars, thvars, kvars>>

\* process_events: handler(event) for the next handler of the event's type
PE_Invoke ==
    /\ pe_pc = "for"
    /\ pe_h <= Len(handlers[pe_event.event_type])
    /\ delivered' = Append(delivered, [ev |-> pe_event, h |-> pe_h])
    /\ IF handlers[pe_event.event_type][pe_h] = "emit"
       THEN pe_pc' = "handler_emit" /\ UNCHANGED pe_h
       ELSE pe_pc' = "for" /\ pe_h' = pe_h + 1
    /\ UNCHANGED <<event_queue, handlers, event_lock, pe_time, pe_event,
                   emitted, memvars, schedvars, thvars, kvars, last_call>>

\* process_events: the range-for over the handlers is finished
PE_ForEnd ==
    /\ pe_pc = "for"
    /\ pe_h > Len(handlers[pe_event.event_type])
    /\ pe_pc' = "while"
    /\ UNCHANGED <<event_queue, handlers, event_lock, pe_time, pe_event, pe_h,
                   emitted, delivered, memvars, schedvars, thvars, kvars, last_call>>

(* A handler calls emit() while process_events runs: emit's lock_guard locks *)
(* event_lock, a std::mutex that the calling thread already owns.  The       *)
(* behaviour is undefined; a build produces one of three outcomes.           *)

\* the thread waits for itself for ever
PE_EmitDeadlock ==
    /\ pe_pc = "handler_emit"
    /\ event_lock
    /\ pe_pc' = "deadlocked"
    /\ UNCHANGED <<event_queue, handlers, event_lock, pe_time, pe_event, pe_h,
                   emitted, delivered, memvars, schedvars, thvars, kvars, last_call>>

\* lock() throws std::system_error (resource_deadlock_would_occur); the
\* exception leaves the handler and process_events, whose lock_guard unlocks
PE_EmitThrow ==
    /\ pe_pc = "handler_emit"
    /\ event_lock
    /\ event_lock' = FALSE
    /\ pe_pc' = "idle"
    /\ pe_event' = NoEvent
    /\ pe_h' = 0
    /\ event_queue' = CallOver(event_queue)
    /\ delivered' = << >>
    /\ pe_time' = 0
    /\ last_call' = Call("process_events", NoPid, 0, FALSE, NoPid)
    /\ UNCHANGED <<handlers, emitted, memvars, schedvars, thvars, kvars>>

\* the mutex operations do nothing (a build without thread support): emit
\* pushes into the queue that process_events is draining and returns
PE_EmitUnlocked ==
    /\ pe_pc = "handler_emit"
    /\ event_lock
    /\ emitted < MaxEvents
    /\ event_queue' = queue_push(event_queue,
                          BiologicalEvent(pe_event.timestamp, OtherType(pe_event.event_type),
                                          pe_event.source_pid, emitted + 1, 1))
    /\ emitted' = emitted + 1
    /\ pe_h' = pe_h + 1
    /\ pe_pc' = "for"
    /\ UNCHANGED <<handlers, event_lock, pe_time, pe_event, delivered,
                   memvars, schedvars, thvars, kvars, last_call>>

\* an EventManager used on its own by one thread
EvInit == SchedInit

EvNext ==
    \/ \E ty \in EventTypes, h \in HandlerKinds : Subscribe(ty, h)
    \/ \E t \in Times, ty \in EventTypes : Emit(t, ty)
    \/ \E t \in Times : PE_Lock(t)
    \/ PE_Pop
    \/ PE_Return
    \/ PE_Invoke
    \/ PE_ForEnd
    \/ PE_EmitDeadlock
    \/ PE_EmitThrow
    \/ PE_EmitUnlocked

EvSpec == EvInit /\ [][EvNext]_vars

----------------------------------------------------------------------------
(* BioOS: create_organism, run_tick, simulate and shutdown.  run_tick is a   *)
(* sequence of steps, so that the states between its calls into the         *)
(* scheduler and the memory are states of the model.  The kernel's          *)
(* event_manager is private and the kernel neither subscribes nor emits:    *)
(* its event queue stays empty.  boot() only prints.                        *)

OrganismSize == 100       \* the size create_organism allocates

\* the time steps a BioOS is constructed with: 100.0, 200.0 and 2^-18
TimeSteps == {100 * Unit, 200 * Unit, 2}

\* the number of organisms that exhaust the memory of a BioOS
Full == KernelCapacity \div OrganismSize

Max(a, b) == IF a >= b THEN a ELSE b

\* BioProcess::update (the protein pool is empty: the kernel never adds one)
\* delta_time is a float parameter: the double time_step is converted
update(process, delta_time) ==
    LET dt == fl(delta_time) IN
    [process EXCEPT !.age = fl(@ + dt),
                    !.energy = Max(0, fl(@ - fl(dt \div 2)))]

\* BiologicalMemory::get_usage_percent, in whole percents
get_usage_percent(total, free) == ((total - free) * 100) \div total

\* ProcessScheduler::get_process_count
get_process_count(procs) == Cardinality(DOMAIN procs)

\* create_organism that creates no entity when the pool cannot hold it
create_organism_denied(procs, queue, counter, free, alloc) ==
    LET c == create_process(procs, queue, counter)
        a == allocate(free, alloc, c.pid, OrganismSize)
    IN  IF a.ret
        THEN [pid |-> c.pid, processes |-> c.processes, ready_queue |-> c.ready_queue,
              pid_counter |-> c.pid_counter, free_space |-> a.free_space,
              allocated |-> a.allocated, allocate_ret |-> a.ret]
        ELSE [pid |-> NoPid, processes |-> procs, ready_queue |-> queue,
              pid_counter |-> counter, free_space |-> free,
              allocated |-> alloc, allocate_ret |-> a.ret]

\* BioOS::create_organism (the genome is not modelled): the result of
\* memory.allocate is dropped
create_organism(procs, queue, counter, free, alloc) ==
    LET c == create_process(procs, queue, counter)
        a == allocate(free, alloc, c.pid, OrganismSize)
    IN  [pid |-> c.pid, processes |-> c.processes, ready_queue |-> c.ready_queue,
         pid_counter |-> c.pid_counter, free_space |-> a.free_space,
         allocated |-> a.allocated, allocate_ret |-> a.ret]

\* static_cast<int>(duration / time_step), for a positive duration
ticks_of(duration, ts) == duration \div ts

\* shutdown that flips running
shutdown_flip(run) == ~run

\* BioOS::shutdown: running = false
shutdown(run) == FALSE

\* what shutdown prints: current_time, get_usage_percent(), get_process_count()
Report(clock, usage, count) == [clock |-> clock, usage |-> usage, count |-> count]

\* a caller's os.create_organism(name, genome_genes); the caller creates at
\* most limit organisms.  last_call.ok is what memory.allocate returned.
CreateOrganism(limit) ==
    /\ k_pc = "idle"
    /\ s_pc = "idle"
    /\ pid_counter < limit
    /\ LET c == create_organism(processes, ready_queue, pid_counter, free_space, allocated)
       IN  /\ processes' = c.processes
           /\ ready_queue' = c.ready_queue
           /\ pid_counter' = c.pid_counter
           /\ free_space' = c.free_space
           /\ allocated' = c.allocated
           /\ last_call' = Call("create_organism", NoPid, 0, c.allocate_ret, c.pid)
    /\ UNCHANGED <<total_capacity, thvars, evvars, kvars>>

\* run_tick, called by the caller or by the loop of simulate:
\* current_time += time_step; process_events(current_time), which finds the
\* queue empty; processes = scheduler.get_all_processes()
RT_Begin ==
    /\ k_pc = "idle"
    /\ s_pc = "loop" => (s_i < s_ticks /\ running)
    /\ current_time < MaxTicks * time_step
    /\ event_queue = << >>
    /\ current_time' = current_time + time_step
    /\ k_processes' = get_all_processes(processes)
    /\ k_i' = 1
    /\ k_updated' = << >>
    /\ k_pc' = "for"
    /\ UNCHANGED <<time_step, running, simvars, report,
                   memvars, schedvars, thvars, evvars, last_call>>

\* run_tick: the next process of the range-for; if (state != TERMINATED)
\* { state = RUNNING; update(time_step); if (energy <= 0) ...
RT_Update ==
    /\ k_pc = "for"
    /\ k_i <= Len(k_processes)
    /\ LET pid == k_processes[k_i] IN
       IF processes[pid].state # "TERMINATED"
       THEN LET p == update([processes[pid] EXCEPT !.state = "RUNNING"], time_step) IN
            /\ processes' = [processes EXCEPT ![pid] = p]
            /\ k_updated' = Append(k_updated, pid)
            /\ k_pc' = IF p.energy <= 0 THEN "terminate" ELSE "ready"
            /\ UNCHANGED k_i
       ELSE /\ k_i' = k_i + 1
            /\ UNCHANGED <<processes, k_pc, k_updated>>
    /\ UNCHANGED <<ready_queue, pid_counter, time_step, current_time, running, k_processes,
                   simvars, report, memvars, thvars, evvars, last_call>>

\* run_tick: scheduler.terminate_process(process->pid)
RT_Terminate ==
    /\ k_pc = "terminate"
    /\ LET r == terminate_process(processes, ready_queue, k_processes[k_i]) IN
        /\ processes' = r.processes
        /\ ready_queue' = r.ready_queue
    /\ k_pc' = "deallocate"
    /\ UNCHANGED <<pid_counter, time_step, current_time, running, k_processes, k_i,
                   k_updated, simvars, report, memvars, thvars, evvars, last_call>>

\* run_tick: memory.deallocate(process->pid)
RT_Deallocate ==
    /\ k_pc = "deallocate"
    /\ LET r == deallocate(free_space, allocated, k_processes[k_i]) IN
        /\ free_space' = r.free_space
        /\ allocated' = r.allocated
    /\ k_pc' = "ready"
    /\ UNCHANGED <<total_capacity, time_step, current_time, running, k_processes, k_i,
                   k_updated, simvars, report, schedvars, thvars, evvars, last_call>>

\* run_tick: process->state = ProcessState::READY, the last statement of the
\* if block, reached whether or not the entity was just terminated
RT_Ready ==
    /\ k_pc = "ready"
    /\ processes' = [processes EXCEPT ![k_processes[k_i]].state = "READY"]
    /\ k_i' = k_i + 1
    /\ k_pc' = "for"
    /\ UNCHANGED <<ready_queue, pid_counter, time_step, current_time, running, k_processes,
                   k_updated, simvars, report, memvars, thvars, evvars, last_call>>

\* run_tick: the range-for is finished, run_tick returns; in simulate, ++i
RT_Return ==
    /\ k_pc = "for"
    /\ k_i > Len(k_processes)
    /\ k_pc' = "idle"
    /\ k_processes' = << >>
    /\ k_i' = 0
    /\ k_updated' = << >>
    /\ s_i' = IF s_pc = "loop" THEN s_i + 1 ELSE s_i
    /\ last_call' = Call("run_tick", NoPid, 0, TRUE, NoPid)
    /\ UNCHANGED <<time_step, current_time, running, s_pc, s_duration, s_ticks, report,
                   memvars, schedvars, thvars, evvars>>

\* a caller's os.simulate(duration): boot(); running = true;
\* int ticks = static_cast<int>(duration / time_step).  The caller asks for
\* no more ticks than the model has room for.
S_Begin(duration) ==
    /\ k_pc = "idle"
    /\ s_pc = "idle"
    /\ current_time + ticks_of(duration, time_step) * time_step <= MaxTicks * time_step
    /\ running' = TRUE
    /\ s_pc' = "loop"
    /\ s_duration' = duration
    /\ s_ticks' = ticks_of(duration, time_step)
    /\ s_i' = 0
    /\ UNCHANGED <<time_step, current_time, k_pc, k_processes, k_i, k_updated, report,
                   memvars, schedvars, thvars, evvars, last_call>>

\* simulate: the test i < ticks && running fails; shutdown(elapsed); return.
\* last_call.size is the number of ticks that simulate has run.
S_Shutdown ==
    /\ k_pc = "idle"
    /\ s_pc = "loop"
    /\ ~(s_i < s_ticks /\ running)
    /\ report' = <<Report(current_time, get_usage_percent(total_capacity, free_space),
                          get_process_count(processes))>>
    /\ running' = shutdown(running)
    /\ s_pc' = "idle"
    /\ s_duration' = 0
    /\ s_ticks' = 0
    /\ s_i' = 0
    /\ last_call' = Call("simulate", NoPid, s_i, TRUE, NoPid)
    /\ UNCHANGED <<time_step, current_time, k_pc, k_processes, k_i, k_updated,
                   memvars, schedvars, thvars, evvars>>

\* a caller's os.shutdown().  last_call.size is 1 when the call before this
\* one was a shutdown too (the caller's, or the one that ends simulate).
Shutdown ==
    /\ k_pc = "idle"
    /\ s_pc = "idle"
    /\ report' = <<Report(current_time, get_usage_percent(total_capacity, free_space),
                          get_process_count(processes))>>
    /\ running' = shutdown(running)
    /\ last_call' = Call("shutdown", NoPid,
                         IF last_call.op \in {"shutdown", "simulate"} THEN 1 ELSE 0,
                         TRUE, NoPid)
    /\ UNCHANGED <<time_step, current_time, k_pc, k_processes, k_i, k_updated, simvars,
                   memvars, schedvars, thvars, evvars>>

\* scheduler.terminate_process(pid) on the kernel's scheduler, between two
\* calls of the kernel
K_TerminateProcess(pid) == k_pc = "idle" /\ s_pc = "idle" /\ TerminateProcess(pid)

\* scheduler.schedule() on the kernel's scheduler, between two calls of the
\* kernel
K_Schedule == k_pc = "idle" /\ s_pc = "idle" /\ Schedule

\* BioOS(ts) with its scheduler, memory(10000.0) and event_manager
Init ==
    /\ \E ts \in TimeSteps : KernelInit(ts)
    /\ MemoryInit(KernelCapacity)
    /\ SchedulerInit
    /\ ThreadsInit
    /\ EventManagerInit
    /\ last_call = NoCall

\* One caller drives the kernel and its scheduler; run_tick proceeds
\* statement by statement.
Next ==
    \/ CreateOrganism(MaxProcs)
    \/ RT_Begin
    \/ RT_Update
    \/ RT_Terminate
    \/ RT_Deallocate
    \/ RT_Ready
    \/ RT_Return
    \/ \E pid \in Pids : K_TerminateProcess(pid)
    \/ K_Schedule

Spec == Init /\ [][Next]_vars

\* One caller creates organisms and calls run_tick, simulate and shutdown.
\* The durations passed to simulate are multiples of half a time step.
SimNext ==
    \/ CreateOrganism(MaxProcs)
    \/ RT_Begin
    \/ RT_Update
    \/ RT_Terminate
    \/ RT_Deallocate
    \/ RT_Ready
    \/ RT_Return
    \/ \E n \in 1..MaxDuration : S_Begin(n * (time_step \div 2))
    \/ S_Shutdown
    \/ Shutdown

SimSpec == Init /\ [][SimNext]_vars

----------------------------------------------------------------------------
(* A BioOS whose caller creates organisms until the memory is exhausted and *)
(* beyond, and calls run_tick only once the memory is nearly exhausted.     *)

\* a caller's os.run_tick() once Full - 1 organisms have been created
X_RunTick == pid_counter >= Full - 1 /\ RT_Begin

ExhaustNext ==
    \/ CreateOrganism(Full + MaxProcs)
    \/ X_RunTick
    \/ RT_Update
    \/ RT_Terminate
    \/ RT_Deallocate
    \/ RT_Ready
    \/ RT_Return

ExhaustSpec == Init /\ [][ExhaustNext]_vars

----------------------------------------------------------------------------
(* Claims about BiologicalMemory, checked under MemSpec *)

\* C1: capacity conservation: after any sequence of allocate and deallocate
\* calls, free_space plus the sum of all recorded active allocations equals
\* total_capacity.
C1_CapacityConservation == free_space + SumAllocated = total_capacity

\* C7: allocate(id, size) returns true, deducts size from free_space and
\* records id -> size exactly when free_space >= size and id holds no
\* allocation; otherwise it returns false and changes nothing.
C7_AllocateContract ==
    [][last_call'.op = "allocate" =>
        LET id == last_call'.id
            size == last_call'.size
            may == free_space >= size /\ id \notin DOMAIN allocated
        IN  /\ last_call'.ok <=> may
            /\ may => /\ free_space' = free_space - size
                      /\ allocated' = MapPut(allocated, id, size)
            /\ ~may => UNCHANGED memvars]_vars

\* C8: deallocate(id) returns true exactly when id holds an allocation; then
\* free_space grows by the recorded size and the record is removed; otherwise
\* it returns false and changes nothing.  A second deallocate(id) right after
\* a successful one returns false and changes nothing.
C8_DeallocateContract ==
    [][last_call'.op = "deallocate" =>
        LET id == last_call'.id
            held == id \in DOMAIN allocated
        IN  /\ last_call'.ok <=> held
            /\ held => /\ free_space' = free_space + allocated[id]
                       /\ DOMAIN allocated' = (DOMAIN allocated) \ {id}
                       /\ \A x \in DOMAIN allocated' : allocated'[x] = allocated[x]
            /\ ~held => UNCHANGED memvars
            /\ (last_call.op = "deallocate" /\ last_call.ok /\ last_call.id = id) =>
                   (~last_call'.ok /\ UNCHANGED memvars)]_vars

\* C8 witness: a deallocate of an allocation of positive size has just
\* succeeded (last_call.size is the amount free_space grew by)
C8_Witness ==
    /\ last_call.op = "deallocate"
    /\ last_call.ok
    /\ last_call.size > 0
    /\ last_call.id \notin DOMAIN allocated

\* C12: in every state reachable by allocate and deallocate calls with
\* non-negative sizes, the sum of the recorded allocations is at most
\* total_capacity, free_space is within [0, total_capacity] (the two together
\* never exceed total_capacity), and the table holds one record per id, of a
\* size between 0 and total_capacity.
C12_NoOverAllocation ==
    /\ SumAllocated <= total_capacity
    /\ free_space >= 0
    /\ free_space <= total_capacity
    /\ free_space + SumAllocated <= total_capacity
    /\ DOMAIN allocated \subseteq Ids
    /\ \A id \in DOMAIN allocated : allocated[id] \in 0..total_capacity

\* C12 witness: an allocate has just been refused for lack of free space
\* while the table holds allocations of positive size
C12_Witness ==
    /\ last_call.op = "allocate"
    /\ ~last_call.ok
    /\ last_call.size > free_space
    /\ SumAllocated > 0
    /\ allocated # EmptyMap

----------------------------------------------------------------------------
(* Claims about ProcessScheduler, checked under SchedSpec *)

\* x is before y in the sequence q
Before(q, x, y) == \E i, j \in 1..Len(q) : i < j /\ q[i] = x /\ q[j] = y

\* C6: priority ordering: schedule() returns empty exactly when the
\* ready-queue is empty; otherwise it returns a queued entity of the smallest
\* priority value, and among the queued entities of that priority the one
\* that create_process inserted first (the one with the smallest pid, as pids
\* are handed out in insertion order).
C6_PriorityOrdering ==
    [][last_call'.op = "schedule" =>
        /\ (last_call'.pid = NoPid) <=> (ready_queue = << >>)
        /\ last_call'.pid # NoPid =>
            LET p == last_call'.pid IN
            /\ p \in Range(ready_queue)
            /\ \A q \in Range(ready_queue) :
                /\ processes[p].priority <= processes[q].priority
                /\ processes[p].priority = processes[q].priority => p <= q]_vars

\* C9: terminate_process(id) returns true exactly when id is in the process
\* table; then the entity is TERMINATED, the ready-queue no longer refers to
\* id, and every other entity and the relative order of the other queue
\* entries are unchanged; for an id not in the table it returns false and
\* changes nothing.
C9_TerminateContract ==
    [][last_call'.op = "terminate_process" =>
        LET id == last_call'.id
            known == id \in DOMAIN processes
        IN  /\ last_call'.ok <=> known
            /\ known =>
                /\ DOMAIN processes' = DOMAIN processes
                /\ processes'[id].state = "TERMINATED"
                /\ id \notin Range(ready_queue')
                /\ \A o \in (DOMAIN processes) \ {id} :
                    /\ processes'[o] = processes[o]
                    /\ o \in Range(ready_queue') <=> o \in Range(ready_queue)
                /\ \A a, b \in (DOMAIN processes) \ {id} :
                    Before(ready_queue', a, b) <=> Before(ready_queue, a, b)
                /\ pid_counter' = pid_counter
            /\ ~known => UNCHANGED schedvars]_vars

\* C9 witness: a queued entity has just been terminated while two others
\* stay queued (last_call.size is the number of queue entries removed)
C9_Witness ==
    /\ last_call.op = "terminate_process"
    /\ last_call.ok
    /\ last_call.size = 1
    /\ processes[last_call.id].state = "TERMINATED"
    /\ Len(ready_queue) = 2

\* C13: UnknownEntity: terminate_process(id) returns false when the entity
\* id is already TERMINATED, as it does when id was never created.
C13_UnknownEntity ==
    [][last_call'.op = "terminate_process" =>
        LET id == last_call'.id IN
        /\ id \notin DOMAIN processes => ~last_call'.ok
        /\ (id \in DOMAIN processes /\ processes[id].state = "TERMINATED") =>
               ~last_call'.ok]_vars

\* C21: ready-queue invariant: after any sequence of create_process,
\* schedule and terminate_process calls the ready-queue holds each id at most
\* once and only ids of the process table whose entity is not TERMINATED;
\* an id enters the ready-queue only in the create_process call that hands
\* it out, so an entity that schedule() removed is never queued again.
C21_ReadyQueueInvariant ==
    /\ [](\A i, j \in 1..Len(ready_queue) :
              ready_queue[i] = ready_queue[j] => i = j)
    /\ [](\A pid \in Range(ready_queue) :
              /\ pid \in DOMAIN processes
              /\ processes[pid].state # "TERMINATED")
    /\ [][\A pid \in Range(ready_queue') \ Range(ready_queue) :
              /\ pid \notin DOMAIN processes
              /\ last_call'.op = "create_process"
              /\ last_call'.pid = pid]_vars

\* C21 witness: entity 0 was removed by schedule() and is live and not
\* queued, entity 1 was terminated, and a create_process call has just
\* queued entity 2
C21_Witness ==
    /\ last_call.op = "create_process"
    /\ last_call.pid = 2
    /\ ready_queue = <<2>>
    /\ processes[0].state = "READY"
    /\ processes[1].state = "TERMINATED"

----------------------------------------------------------------------------
(* Claims about concurrent callers of ProcessScheduler, checked under ConcSpec *)

\* C10: under any interleaving of create_process and terminate_process
\* calls, the ids the create_process calls return are strictly increasing in
\* the order in which the calls acquired the lock (so they are distinct and
\* none is reused, whether or not its entity was terminated), and when a
\* create_process call returns its entity is in the process table, READY and
\* the last element of the ready-queue.
C10_UniqueIds ==
    /\ \A i, j \in 1..Len(cp_ids) :
        (i < j /\ cp_ids[i] # NoPid /\ cp_ids[j] # NoPid) => cp_ids[i] < cp_ids[j]
    /\ \A t \in Threads :
        t_pc[t] = "cp_return" =>
            /\ t_pid[t] \in DOMAIN processes
            /\ processes[t_pid[t]].state = "READY"
            /\ ready_queue # << >>
            /\ ready_queue[Len(ready_queue)] = t_pid[t]
            /\ \A i \in 1..Len(cp_ids) : cp_ids[i] # t_pid[t]

\* C10 witness: a create_process call is about to return the id that follows
\* the id of an entity that another call created and a terminate_process
\* call has terminated since
C10_Witness ==
    \E t \in Threads :
        /\ t_pc[t] = "cp_return"
        /\ t_pid[t] = 1
        /\ cp_ids[1] = 0
        /\ processes[0].state = "TERMINATED"
        /\ \E u \in Threads \ {t} : t_pc[u] = "idle"

----------------------------------------------------------------------------
(* Claims about EventManager, checked under EvSpec *)

\* C4: re-entrant emission: when a handler calls emit() while process_events
\* is draining, process_events does not deadlock and returns; the emitted
\* event is not delivered by that process_events call even if it is due, and
\* a later process_events call whose current_time is at or past its
\* timestamp does not return without consuming it.
C4_ReentrantEmission ==
    /\ pe_pc # "deadlocked"
    /\ ~(last_call.op = "process_events" /\ ~last_call.ok)
    /\ \A i \in 1..Len(delivered) : delivered[i].ev.during # 1
    /\ (pe_pc = "while" /\ ~Due(event_queue, pe_time)) =>
            \A i \in 1..Len(event_queue) :
                event_queue[i].during = 2 => event_queue[i].timestamp > pe_time

\* the positions of the first handler invocation for each consumed event
FirstDeliveries == {i \in 1..Len(delivered) : delivered[i].h = 1}

\* C5: event ordering: the events that callers emitted are delivered by one
\* process_events call in non-decreasing timestamp order, and two of them
\* with equal timestamps in the order in which they were emitted.
C5_EventOrdering ==
    \A i, j \in FirstDeliveries :
        LET a == delivered[i].ev
            b == delivered[j].ev
        IN  (i < j /\ a.during = 0 /\ b.during = 0) =>
                /\ a.timestamp <= b.timestamp
                /\ a.timestamp = b.timestamp => a.n < b.n

\* the emission numbers of the events in the queue q
Queued(q) == {q[i].n : i \in 1..Len(q)}

\* C11: exactly-once delivery of due events: an event leaves the queue only
\* when process_events pops it, being the top and due, and never comes back
\* (so no second call delivers it); the queued events are never altered; an
\* event with a timestamp past t is never delivered; the handlers of a popped
\* event's type are invoked once each in subscription order, all of them
\* before the next pop; and when process_events(t) returns, no event with
\* timestamp <= t is left in the queue.
C11_ExactlyOnce ==
    /\ [](/\ \A n \in Queued(event_queue) : n <= emitted
          /\ \A i \in 1..Len(delivered) :
                LET d == delivered[i] IN
                /\ d.ev.timestamp <= pe_time
                /\ d.ev.n <= emitted
                /\ d.ev.n \notin Queued(event_queue)
                /\ d.ev.event_type \in DOMAIN handlers
                /\ d.h \in 1..Len(handlers[d.ev.event_type])
                /\ IF d.h = 1
                   THEN \A j \in 1..(i - 1) : delivered[j].ev.n # d.ev.n
                   ELSE i > 1 /\ delivered[i - 1] = [ev |-> d.ev, h |-> d.h - 1]
          /\ pe_pc = "while" =>
                /\ \A i \in 1..Len(delivered) :
                      \E j \in 1..Len(delivered) :
                          delivered[j] = [ev |-> delivered[i].ev,
                                          h |-> Len(handlers[delivered[i].ev.event_type])]
                /\ pe_event.event_type \in DOMAIN handlers =>
                      \E j \in 1..Len(delivered) : delivered[j].ev = pe_event)
    /\ [][/\ Queued(event_queue') \subseteq Queued(event_queue) \cup {emitted + 1}
          /\ \A n \in Queued(event_queue) \ Queued(event_queue') :
                /\ pe_pc = "while"
                /\ queue_top(event_queue).n = n
                /\ pe_event' = queue_top(event_queue)
                /\ pe_event'.timestamp <= pe_time
          /\ \A i \in 1..Len(event_queue), j \in 1..Len(event_queue') :
                event_queue[i].n = event_queue'[j].n =>
                    /\ event_queue'[j].timestamp = event_queue[i].timestamp
                    /\ event_queue'[j].event_type = event_queue[i].event_type
                    /\ event_queue'[j].source_pid = event_queue[i].source_pid
          /\ Len(event_queue') = Cardinality(Queued(event_queue'))
          /\ (pe_pc = "while" /\ pe_pc' = "idle") =>
                /\ last_call'.op = "process_events" /\ last_call'.ok
                /\ \A i \in 1..Len(event_queue') : event_queue'[i].timestamp > pe_time]_vars

\* C11 witness: process_events is about to return (the queue is not empty
\* and its top is not due) after passing one event to two handlers, and an
\* event with a later timestamp is still queued
C11_Witness ==
    /\ pe_pc = "while"
    /\ event_queue # << >>
    /\ queue_top(event_queue).timestamp > pe_time
    /\ Len(delivered) >= 2
    /\ delivered[1].ev = delivered[2].ev
    /\ delivered[1].h = 1
    /\ delivered[2].h = 2
    /\ \E i \in 1..Len(event_queue) : event_queue[i].timestamp > pe_time

\* C18: release-before-invoke: process_events holds event_lock only while it
\* tests and pops the queue; no handler is invoked, and no handler is in the
\* middle of its execution, while the dispatching thread holds event_lock.
C18_ReleaseBeforeInvoke ==
    /\ [](event_lock => pe_pc = "while")
    /\ [][Len(delivered') > Len(delivered) => ~event_lock]_vars

----------------------------------------------------------------------------
(* Claims about the BioOS tick loop, checked under Spec *)

\* C2: termination reclaims resources: once run_tick has returned, every
\* entity whose energy has reached 0 is TERMINATED in the record that
\* get_process returns, holds no allocation, its size being back in
\* free_space, and is not among get_all_processes().
C2_TerminationReclaims ==
    k_pc = "idle" =>
        \A pid \in DOMAIN processes :
            processes[pid].energy <= 0 =>
                /\ processes[pid].state = "TERMINATED"
                /\ pid \notin DOMAIN allocated
                /\ free_space + SumAllocated = total_capacity
                /\ pid \notin Range(get_all_processes(processes))

\* C3: TERMINATED is terminal: no step changes the state of a TERMINATED
\* entity, and no step updates it (an update adds time_step to its age).
C3_TerminatedIsTerminal ==
    [][\A pid \in DOMAIN processes :
        processes[pid].state = "TERMINATED" =>
            /\ processes'[pid].state = "TERMINATED"
            /\ processes'[pid].age = processes[pid].age]_vars

\* the entities that are not TERMINATED
Live(procs) == {pid \in DOMAIN procs : procs[pid].state # "TERMINATED"}

C19_TerminateBeforeReclaim ==
    /\ [][\A pid \in DOMAIN allocated :
            pid \notin DOMAIN allocated' =>
                /\ processes[pid].state = "TERMINATED"
                /\ processes'[pid].state = "TERMINATED"]_vars
    /\ [](\A pid \in DOMAIN processes :
            pid \notin DOMAIN allocated => processes[pid].state = "TERMINATED")

\* C22: eventual termination, stated over finite runs by the progress the
\* claim rests on: every update of run_tick lowers the energy of the entity
\* by half a time step, floored at 0, so that a positive energy strictly
\* decreases and is 0 after finitely many ticks; when an update leaves the
\* energy at 0 the next statement of run_tick is terminate_process for that
\* entity, and it sets TERMINATED; no step raises an energy; energy is never
\* negative and age never decreases.
C22_EventualTermination ==
    /\ [](\A pid \in DOMAIN processes : processes[pid].energy >= 0)
    /\ [][\A pid \in DOMAIN processes :
            LET p == processes[pid]
                q == processes'[pid]
                updated == /\ k_pc = "for"
                           /\ Len(k_updated') = Len(k_updated) + 1
                           /\ k_processes[k_i] = pid
            IN  /\ q.energy <= p.energy
                /\ q.age >= p.age
                /\ updated =>
                    /\ q.energy = Max(0, p.energy - time_step \div 2)
                    /\ p.energy > 0 => q.energy < p.energy
                    /\ q.energy = 0 => k_pc' = "terminate"]_vars
    /\ [][k_pc = "terminate" =>
            processes'[k_processes[k_i]].state = "TERMINATED"]_vars

----------------------------------------------------------------------------
(* Claims about simulate and shutdown, checked under SimSpec *)

\* C15: the kernel run state follows NOT_STARTED -> RUNNING -> STOPPED and
\* STOPPED is terminal: once a shutdown has stopped the kernel (it has printed
\* its report), no step makes the kernel running again or advances the clock.
C15_StoppedIsTerminal ==
    [][report # << >> => (~running' /\ current_time' = current_time)]_vars

\* the smallest integer that is not below a / b, for positive a and b
Ceil(a, b) == (a + b - 1) \div b

\* C16: when simulate(duration) shuts down, it has run exactly
\* ceil(duration / time_step) ticks.
C16_CeilTicks ==
    [][(s_pc = "loop" /\ s_pc' = "idle") => s_i = Ceil(s_duration, time_step)]_vars

\* C17: idempotent shutdown: a shutdown() that directly follows a shutdown
\* finds the kernel stopped and leaves it stopped; it changes neither the
\* clock, nor the resource pool, nor the process table, prints the same
\* clock, usage and entity count as the one before, and reports no error.
C17_IdempotentShutdown ==
    [][(last_call'.op = "shutdown" /\ last_call'.size = 1 /\ last_call' # last_call) =>
          /\ report # << >>
          /\ ~running
          /\ ~running'
          /\ current_time' = current_time
          /\ UNCHANGED <<memvars, schedvars>>
          /\ report' = report
          /\ last_call'.ok]_vars

\* C17 witness: shutdown() has been called right after a shutdown (the
\* caller's, or the one that ends simulate) of a kernel whose clock has
\* advanced and that holds organisms, and has printed the same report
C17_Witness ==
    /\ last_call.op = "shutdown"
    /\ last_call.size = 1
    /\ ~running
    /\ report # << >>
    /\ report[1].clock = current_time
    /\ current_time > 0
    /\ report[1].count > 0
    /\ report[1].usage > 0

----------------------------------------------------------------------------
(* Claims about create_organism on an exhausted memory, checked under ExhaustSpec *)

\* C20: a create_organism that finds free_space below 100 still creates a
\* READY entity under a fresh id, appends it to the ready-queue and returns
\* the id, with no sign of the failure; free_space and the allocation table
\* are unchanged, and the new live entity holds no allocation.
C20_CreateWhenExhausted ==
    [][(/\ last_call'.op = "create_organism"
        /\ last_call' # last_call
        /\ free_space < OrganismSize) =>
            LET pid == last_call'.pid IN
            /\ pid = pid_counter
            /\ pid \notin DOMAIN processes
            /\ pid \in DOMAIN processes'
            /\ processes'[pid] = NewProcess
            /\ \A o \in DOMAIN processes : processes'[o] = processes[o]
            /\ ready_queue' = Append(ready_queue, pid)
            /\ pid_counter' = pid_counter + 1
            /\ UNCHANGED memvars
            /\ pid \notin DOMAIN allocated'
            /\ pid \in Live(processes')]_vars

\* C20 witness: create_organism has just returned the id of a READY entity
\* that it created while the memory held Full allocations and no free space;
\* the entity holds no allocation
C20_Witness ==
    /\ last_call.op = "create_organism"
    /\ ~last_call.ok
    /\ last_call.pid = pid_counter - 1
    /\ last_call.pid >= Full
    /\ processes[last_call.pid].state = "READY"
    /\ last_call.pid \notin DOMAIN allocated
    /\ free_space < OrganismSize
    /\ Cardinality(DOMAIN allocated) = Full

============================================================================
